---- MODULE Spec2Model ----
(***************************************************************************)
(* Model of the privileged session daemon of ms-sso-openconnect:           *)
(*   src/daemon/validator.py  (validate_request and its rule set)          *)
(*   src/daemon/platform.py   (process lookup, kill_process)               *)
(*   src/daemon/server.py     (VPNDaemon: listener, connect, disconnect,   *)
(*                             status, output, orphan recovery)            *)
(*                                                                         *)
(* Two specifications are defined over one set of variables:               *)
(*   SpecV : one request is drawn from a bounded set of JSON values, is    *)
(*           validated and, when accepted, turned into the child's argv    *)
(*           and stdin exactly as _cmd_connect does;                       *)
(*   Spec  : the daemon with its per-connection workers, the session lock, *)
(*           the process table of the host and the tunnel child.           *)
(***************************************************************************)
EXTENDS Integers, Sequences, FiniteSets, TLC

(***************************************************************************)
(* Bounds of the model                                                     *)
(***************************************************************************)
\* longest string drawn for a request field in SpecV
MaxLen == 3
\* number of connection workers that can be alive at once
NumWorkers == 2
\* largest process id of the host
MaxPid == 2
\* number of output lines a child emits at most
MaxOut == 1
\* number of output lines a child emits at most in SpecG
MaxOutG == 2
\* the longest reply a peer sends to the client, in bytes
MaxReply == 3
\* the threads that call get_backend, and the calls each makes
NumCallers == 2
MaxCalls == 2
\* the lines one child writes in SpecO
MaxLines == 102
\* SpecL draws cookies whose length is at most this far below the limit
Margin == 100

VARIABLES
    \* SpecV: the request under validation, how far it got, the validator's
    \* verdict, and the argv and stdin built from it
    vreq, vstage, vverdict, vcmd, vstdin,
    \* Spec: the daemon
    daemon,        \* "constructed" | "listening" | "stopped": where start() is
    listener,      \* self._running, self._socket and the socket file
    procs,         \* the host's process table: pid -> process
    vpn_process,   \* self._vpn_process
    pid_file,      \* self._pid_file
    output_lines,  \* self._output_lines
    lock,          \* self._lock: the worker holding it, or 0
    worker,        \* per connection worker: position and request
    sent,          \* the response the last step wrote to a connection, if any
    \* SpecC: one call of DaemonClient._send
    client,
    \* SpecB: the UI's module-level backend and the threads that ask for it
    backend

vvars == <<vreq, vstage, vverdict, vcmd, vstdin>>
dvars == <<daemon, listener, procs, vpn_process, pid_file, output_lines, lock, worker, sent>>
cvars == <<client, backend>>
vars == <<vreq, vstage, vverdict, vcmd, vstdin,
          daemon, listener, procs, vpn_process, pid_file, output_lines, lock, worker, sent,
          client, backend>>

(***************************************************************************)
(* Characters are Unicode code points; a string is a sequence of them.     *)
(***************************************************************************)
NUL == 0
LF == 10
SPACE == 32
COMMA == 44
HYPHEN == 45
DOT == 46
COLON == 58
SEMICOLON == 59
AT == 64
UNDERSCORE == 95
LOWER_A == 97

\* the characters request strings are drawn from
Chars == {NUL, LF, SPACE, COMMA, HYPHEN, DOT, COLON, SEMICOLON, AT, UNDERSCORE, LOWER_A}

\* [a-zA-Z0-9]
AlNum(c) == (c >= 48 /\ c <= 57) \/ (c >= 65 /\ c <= 90) \/ (c >= 97 /\ c <= 122)

\* [-a-zA-Z0-9.]
ServerChar(c) == AlNum(c) \/ c = HYPHEN \/ c = DOT

\* [a-zA-Z0-9@._-]
UsernameChar(c) == AlNum(c) \/ c = AT \/ c = DOT \/ c = UNDERSCORE \/ c = HYPHEN

\* [a-zA-Z0-9:_-]
UsergroupChar(c) == AlNum(c) \/ c = COLON \/ c = UNDERSCORE \/ c = HYPHEN

\* [^\x00-\x1f]
CookieChar(c) == ~(c >= 0 /\ c <= 31)

\* Python's `$` (no re.MULTILINE): the positions at which the pattern may
\* end, namely the end of the string and just before a final newline.
DollarEnds(s) ==
    {Len(s)} \cup (IF Len(s) > 0 /\ s[Len(s)] = LF THEN {Len(s) - 1} ELSE {})

\* RE_SERVER.match(s)
RE_SERVER(s) ==
    \E e \in DollarEnds(s) :
        /\ e >= 2
        /\ AlNum(s[1])
        /\ AlNum(s[e])
        /\ \A i \in 2..(e - 1) : ServerChar(s[i])

\* RE_USERNAME.match(s)
RE_USERNAME(s) ==
    \E e \in DollarEnds(s) : e >= 1 /\ \A i \in 1..e : UsernameChar(s[i])

\* RE_USERGROUP.match(s)
RE_USERGROUP(s) ==
    \E e \in DollarEnds(s) : e >= 1 /\ \A i \in 1..e : UsergroupChar(s[i])

\* RE_COOKIE.match(s)
RE_COOKIE(s) ==
    \E e \in DollarEnds(s) : e >= 1 /\ \A i \in 1..e : CookieChar(s[i])

MAX_SERVER_LEN == 253
MAX_USERNAME_LEN == 254
MAX_USERGROUP_LEN == 128
MAX_COOKIE_LEN == 65536

VALID_COMMANDS == {"connect", "disconnect", "status", "output"}
VALID_PROTOCOLS == {"anyconnect", "gp"}

(***************************************************************************)
(* Decoded JSON values.  t is the JSON type, v the value: a sequence of    *)
(* code points for the free-text fields, a TLA+ string for the two         *)
(* enumerated fields (command, protocol).  "absent" is a key the object    *)
(* does not have (dict.get returns None), "num" a non-zero number, "list"  *)
(* a non-empty list.                                                       *)
(***************************************************************************)
Absent == [t |-> "absent", v |-> <<>>]
JStr(s) == [t |-> "str", v |-> s]
JNum == [t |-> "num", v |-> <<>>]
JList == [t |-> "list", v |-> <<>>]

\* Python truthiness of request.get(key) for a free-text field
Truthy(x) ==
    CASE x.t = "absent" -> FALSE
      [] x.t = "str" -> Len(x.v) > 0
      [] OTHER -> TRUE

\* Python truthiness of request.get(key) for an enumerated field
TruthyEnum(x) ==
    CASE x.t = "absent" -> FALSE
      [] x.t = "str" -> x.v # ""
      [] OTHER -> TRUE

\* what `len(x) > limit or not regex.match(x)` does for a truthy x:
\* "raise" (TypeError), "bad" (the condition is true) or "ok"
FieldCheck(x, limit, matches) ==
    CASE x.t = "num" -> "raise"
      [] x.t = "list" -> "raise"
      [] OTHER -> IF Len(x.v) > limit \/ ~matches THEN "bad" ELSE "ok"

Verdict(ok, error) == [ok |-> ok, error |-> error, raised |-> FALSE]
Raised == [ok |-> FALSE, error |-> "TypeError", raised |-> TRUE]

\* request.get("protocol", "anyconnect")
ProtocolOf(request) ==
    IF request.protocol.t = "absent" THEN JStr("anyconnect") ELSE request.protocol

validate_request(request) ==
    IF ~request.isdict THEN Verdict(FALSE, "Request must be a JSON object")
    ELSE IF request.command.t = "list" THEN Raised
    ELSE IF ~TruthyEnum(request.command) \/ request.command.t # "str"
            \/ request.command.v \notin VALID_COMMANDS
         THEN Verdict(FALSE, "Invalid command")
    ELSE IF request.command.v # "connect" THEN Verdict(TRUE, "")
    ELSE
    LET server == request.server
        protocol == ProtocolOf(request)
        cookie == request.cookie
        username == request.username
        usergroup == request.usergroup
        sc == FieldCheck(server, MAX_SERVER_LEN,
                         server.t = "str" /\ RE_SERVER(server.v))
        cc == FieldCheck(cookie, MAX_COOKIE_LEN,
                         cookie.t = "str" /\ RE_COOKIE(cookie.v))
        uc == FieldCheck(username, MAX_USERNAME_LEN,
                         username.t = "str" /\ RE_USERNAME(username.v))
        gc == FieldCheck(usergroup, MAX_USERGROUP_LEN,
                         usergroup.t = "str" /\ RE_USERGROUP(usergroup.v))
    IN  IF ~Truthy(server) THEN Verdict(FALSE, "Missing 'server' parameter")
        ELSE IF sc = "raise" THEN Raised
        ELSE IF sc = "bad" THEN Verdict(FALSE, "Invalid server format")
        ELSE IF protocol.t = "list" THEN Raised
        ELSE IF protocol.t # "str" \/ protocol.v \notin VALID_PROTOCOLS
             THEN Verdict(FALSE, "Invalid protocol")
        ELSE IF ~Truthy(cookie) THEN Verdict(FALSE, "Missing 'cookie' parameter")
        ELSE IF cc = "raise" THEN Raised
        ELSE IF cc = "bad" THEN Verdict(FALSE, "Invalid cookie format")
        ELSE IF Truthy(username) /\ uc = "raise" THEN Raised
        ELSE IF Truthy(username) /\ uc = "bad"
             THEN Verdict(FALSE, "Invalid username format")
        ELSE IF Truthy(usergroup) /\ gc = "raise" THEN Raised
        ELSE IF Truthy(usergroup) /\ gc = "bad"
             THEN Verdict(FALSE, "Invalid usergroup format")
        ELSE Verdict(TRUE, "")

(***************************************************************************)
(* The child's invocation, as _cmd_connect assembles it.  An argv element  *)
(* is a literal text opt followed by a string val taken from the request.  *)
(***************************************************************************)
Arg(opt, val) == [opt |-> opt, val |-> val]

\* the `if request.get("username")` / `if request.get("usergroup")` appends
OptionalArg(opt, x) == IF Truthy(x) THEN <<Arg(opt, x.v)>> ELSE <<>>

BuildCmd(request) ==
    LET protocol == ProtocolOf(request).v
        head == <<Arg("openconnect", <<>>), Arg("--verbose", <<>>),
                  Arg("--protocol=" \o protocol, <<>>)>>
                \o (IF request.no_dtls THEN <<Arg("--no-dtls", <<>>)>> ELSE <<>>)
    IN  IF protocol = "gp"
        THEN head \o <<Arg("--os=linux-64", <<>>),
                       Arg("--useragent=PAN GlobalProtect", <<>>)>>
                  \o OptionalArg("--user=", request.username)
                  \o OptionalArg("--usergroup=", request.usergroup)
                  \o <<Arg("--passwd-on-stdin", <<>>), Arg("", request.server.v)>>
        ELSE head \o OptionalArg("--user=", request.username)
                  \o <<Arg("--cookie=", request.cookie.v),
                       Arg("", request.server.v)>>

\* self._use_stdin
UseStdin(request) == ProtocolOf(request).v = "gp"

\* what is written to the child's stdin before it is closed
StdinOf(request) ==
    IF UseStdin(request) THEN Append(request.cookie.v, LF) ELSE <<>>

(***************************************************************************)
(* Requests                                                                *)
(***************************************************************************)
Strings == UNION {[1..n -> Chars] : n \in 0..MaxLen}

\* {"command": "connect", "server": "a.a", "protocol": p, "cookie": "a"}
ConnectRequest(p) ==
    [isdict |-> TRUE, command |-> JStr("connect"),
     server |-> JStr(<<LOWER_A, DOT, LOWER_A>>), protocol |-> JStr(p),
     cookie |-> JStr(<<LOWER_A>>), username |-> Absent, usergroup |-> Absent,
     no_dtls |-> FALSE, force |-> FALSE]

\* {"command": c}
CommandRequest(c) == [ConnectRequest("anyconnect") EXCEPT !.command = c,
                          !.server = Absent, !.protocol = Absent, !.cookie = Absent]

\* {"command": "disconnect", "force": force}
DisconnectRequest(force) == [CommandRequest(JStr("disconnect")) EXCEPT !.force = force]

TextFields == {"server", "cookie", "username", "usergroup"}
TextValues == {JStr(s) : s \in Strings} \cup {Absent, JNum, JList}
EnumValues(known) == {JStr(k) : k \in known \cup {"", "bogus"}} \cup {Absent, JNum, JList}

\* the requests SpecV draws from: a connect request with one free-text field
\* replaced by any value, or with any protocol, or any command, or a payload
\* that is no JSON object
VRequests ==
    {[ConnectRequest(p) EXCEPT ![f] = x] :
        p \in VALID_PROTOCOLS, f \in TextFields, x \in TextValues}
    \cup {[ConnectRequest(p) EXCEPT !.no_dtls = TRUE] : p \in VALID_PROTOCOLS}
    \cup {[ConnectRequest("gp") EXCEPT !.protocol = x] : x \in EnumValues(VALID_PROTOCOLS)}
    \cup {CommandRequest(x) : x \in EnumValues(VALID_COMMANDS)}
    \cup {[ConnectRequest("gp") EXCEPT !.isdict = FALSE]}

NoVerdict == [ok |-> FALSE, error |-> "", raised |-> FALSE]

(***************************************************************************)
(* The host's processes (psutil's view) and the daemon's handle on them    *)
(***************************************************************************)
Pids == 1..MaxPid
Workers == 1..NumWorkers

\* name: the process name; st: "running" | "zombie" | "absent";
\* child: it is a child of the daemon
NoProc == [name |-> "", st |-> "absent", child |-> FALSE]
Proc(name, child) == [name |-> name, st |-> "running", child |-> child]

\* the listener before start(): self._running is True, no socket yet.
\* accept_pending: the accept() call that was in progress when a signal
\* arrived is still running (it is resumed after the handler returns)
NoListener == [running |-> TRUE, accept_pending |-> FALSE, socket |-> "none", file |-> FALSE]

\* the listener once start() has bound the socket and listens on it
Listening == [NoListener EXCEPT !.socket = "open", !.file = TRUE]

\* self._vpn_process is None / a Popen object with this pid
None == [set |-> FALSE, pid |-> 0]
Popen(pid) == [set |-> TRUE, pid |-> pid]

\* the pid file does not exist / holds this pid
NoFile == [exists |-> FALSE, pid |-> 0]
File(pid) == [exists |-> TRUE, pid |-> pid]

\* Popen.poll() is None: the child has not exited
PollIsNone(ps, h) ==
    h.set /\ ps[h.pid].child /\ ps[h.pid].st = "running"

\* the process table after Popen.poll(): an exited child is reaped
AfterPoll(ps, h) ==
    IF h.set /\ ps[h.pid].child /\ ps[h.pid].st = "zombie"
    THEN [ps EXCEPT ![h.pid] = NoProc] ELSE ps

\* find_process_by_name(name): the pid of the first process (in pid order)
\* whose name is exactly `name`, or 0
find_process_by_name(ps, name) ==
    LET found == {p \in Pids : ps[p].st # "absent" /\ ps[p].name = name}
    IN  IF found = {} THEN 0 ELSE CHOOSE p \in found : \A q \in found : p <= q

\* a lookup that compares the process name with the binary's path instead
find_openconnect_by_path(ps) == find_process_by_name(ps, "/usr/sbin/openconnect")

find_openconnect(ps) == find_process_by_name(ps, "openconnect")

\* is_process_running(pid)
is_process_running(ps, pid) ==
    pid \in Pids /\ ps[pid].st = "running"

\* get_process_info(pid): the name of the process, "" for None
get_process_info(ps, pid) ==
    IF pid \in Pids /\ ps[pid].st # "absent" THEN ps[pid].name ELSE ""

(***************************************************************************)
(* Output of the child                                                     *)
(***************************************************************************)
OutputLines == {"POST https://a.a/", "Connected as 10.0.0.2", "Authentication failed"}

\* "Connected as" in output or "ESP session established" in output or ...
HasSuccessMarker(lines) ==
    \E k \in DOMAIN lines : lines[k] = "Connected as 10.0.0.2"

\* "authentication failed" in output.lower() or "cookie rejected" in ...
HasAuthFailure(lines) ==
    \E k \in DOMAIN lines : lines[k] = "Authentication failed"

\* lines[-n:]
LastLines(lines, n) ==
    IF Len(lines) <= n THEN lines ELSE SubSeq(lines, Len(lines) - n + 1, Len(lines))

OUTPUT_RING == 100
OUTPUT_TAIL == 50
ERROR_TAIL == 10
POLL_ITERATIONS == 15

\* _read_output's loop body for one line
AppendLine(lines, line) ==
    LET appended == Append(lines, line)
    IN  IF Len(appended) > OUTPUT_RING THEN Tail(appended) ELSE appended

(***************************************************************************)
(* Connections: what a client sends, and the response written back         *)
(***************************************************************************)
NoRequest == CommandRequest(Absent)

\* the bytes received on a connection: empty is whether recv returned no
\* byte (the peer closed), json is whether json.loads accepts them
Data(json, request) == [json |-> json, request |-> request, empty |-> FALSE]

\* conn.recv returned b""
NoData == [Data(FALSE, NoRequest) EXCEPT !.empty = TRUE]

\* the payloads clients of the daemon send in Spec
DaemonInputs ==
    {Data(TRUE, CommandRequest(JStr(c))) : c \in {"disconnect", "status", "output"}}
    \cup {Data(TRUE, ConnectRequest("gp")),
          Data(TRUE, [ConnectRequest("gp") EXCEPT !.server = JStr(<<LOWER_A, SPACE, LOWER_A>>)]),
          Data(TRUE, [ConnectRequest("gp") EXCEPT !.server = JNum]),
          Data(FALSE, NoRequest)}

\* a response object; pid 0 stands for null or no pid key
Response(kind, success, error) ==
    [kind |-> kind, success |-> success, error |-> error,
     connected |-> FALSE, pid |-> 0, info |-> "", lines |-> <<>>]
NoResponse == Response("", FALSE, "")

\* a worker: pc is "idle" (no connection), "lock" (validated, waiting for the
\* session lock), "connect_wait" (in _cmd_connect's grace loop) or "kill_wait"
\* (in kill_process's wait, which follows the SIGTERM sent to pid);
\* i counts the grace loop's completed iterations, pid is the pid being killed
\* and sig the signal that was sent to it
IdleWorker == [pc |-> "idle", request |-> NoRequest, i |-> 0, pid |-> 0, sig |-> ""]

\* a handler that closes the connection without writing the response
ReturnsNothing(w, r) ==
    /\ worker' = [worker EXCEPT ![w] = IdleWorker]
    /\ sent' = NoResponse

\* conn.send(json.dumps(response)) and, in the finally clause, conn.close()
Returns(w, r) ==
    /\ worker' = [worker EXCEPT ![w] = IdleWorker]
    /\ sent' = r

\* `if not data: return`: the finally clause closes the connection and
\* nothing was written to it
Closes(w) ==
    /\ worker' = [worker EXCEPT ![w] = IdleWorker]
    /\ sent' = NoResponse

(***************************************************************************)
(* SpecV: validation and construction of the child's invocation            *)
(***************************************************************************)
\* a DaemonClient that has sent nothing: socket is what connect() will meet
\* ("ok", "absent": no socket file, "refused": nobody listens, "denied": any
\* other error), reply the bytes the peer will write before it closes
Client(socket, reply) ==
    [socket |-> socket, reply |-> reply, pc |-> "init", received |-> 0, nchunks |-> 0,
     event |-> "", error |-> "", message |-> "", result |-> <<>>]
NoClient == Client("ok", <<>>)

\* _backend_instance is None and no thread is inside get_backend;
\* instance and the elements of returned are object identities, 0 is None
NoBackend ==
    [instance |-> 0, made |-> 0, returned |-> {},
     caller |-> [t \in 1..NumCallers |-> [pc |-> "idle", calls |-> 0]]]

ClientInit == client = NoClient /\ backend = NoBackend

DaemonInit ==
    /\ daemon = "constructed"
    /\ listener = NoListener
    /\ procs = [p \in Pids |-> NoProc]
    /\ vpn_process = None
    /\ pid_file = NoFile
    /\ output_lines = <<>>
    /\ lock = 0
    /\ worker = [w \in Workers |-> IdleWorker]
    /\ sent = NoResponse

InitV ==
    /\ vreq \in VRequests
    /\ vstage = "received"
    /\ vverdict = NoVerdict
    /\ vcmd = <<>>
    /\ vstdin = <<>>
    /\ DaemonInit
    /\ ClientInit

\* _handle_connection's call of validate_request
Validate ==
    /\ vstage = "received"
    /\ vverdict' = validate_request(vreq)
    /\ vstage' = IF vverdict'.raised THEN "error"
                 ELSE IF vverdict'.ok THEN "accepted" ELSE "rejected"
    /\ UNCHANGED <<vreq, vcmd, vstdin>>
    /\ UNCHANGED <<dvars, cvars>>

\* _cmd_connect for an accepted connect request, up to the write to stdin
Spawn ==
    /\ vstage = "accepted"
    /\ vreq.command.v = "connect"
    /\ vcmd' = BuildCmd(vreq)
    /\ vstdin' = StdinOf(vreq)
    /\ vstage' = "spawned"
    /\ UNCHANGED <<vreq, vverdict>>
    /\ UNCHANGED <<dvars, cvars>>

\* the dispatch of an accepted request that is no connect
Dispatched ==
    /\ vstage = "accepted"
    /\ vreq.command.v # "connect"
    /\ vstage' = "dispatched"
    /\ UNCHANGED <<vreq, vverdict, vcmd, vstdin>>
    /\ UNCHANGED <<dvars, cvars>>

NextV == Validate \/ Spawn \/ Dispatched

SpecV == InitV /\ [][NextV]_vars

(***************************************************************************)
(* SpecI: SpecV followed by a status request while the spawned child runs  *)
(***************************************************************************)
\* get_process_info(pid) for the child spawned with the argv cmd: psutil
\* reports the name and the command line of the process
process_info(cmd) == [name |-> "openconnect", cmdline |-> cmd]

\* the response of _cmd_status while the child spawned for request runs
status_of_child(request) ==
    [kind |-> "status", success |-> TRUE, connected |-> TRUE,
     info |-> process_info(BuildCmd(request))]

\* a status request is dispatched after the connect that spawned the child
ReportStatus ==
    /\ vstage = "spawned"
    /\ vstage' = "reported"
    /\ sent' = status_of_child(vreq)
    /\ UNCHANGED <<vreq, vverdict, vcmd, vstdin>>
    /\ UNCHANGED <<daemon, listener, procs, vpn_process, pid_file, output_lines, lock, worker>>
    /\ UNCHANGED cvars

NextI == Validate \/ Spawn \/ Dispatched \/ ReportStatus

SpecI == InitV /\ [][NextI]_vars

(***************************************************************************)
(* SpecL: connect requests with cookies as long as the validator allows,   *)
(* sent as the client library encodes them and read by the listener's one  *)
(* recv                                                                    *)
(***************************************************************************)
\* conn.recv(65536)
RECV_SIZE == 65536

\* len(json.dumps(s)) for a string of n characters that need no escape
JsonStringLen(n) == n + 2

\* the length of one `"key": value` item, plus the ", " that precedes it
\* when it is not the first; 0 for a key the object does not have
ItemLen(key, present, valuelen, first) ==
    IF ~present THEN 0
    ELSE (IF first THEN 0 ELSE 2) + JsonStringLen(Len(key)) + 2 + valuelen

\* len(json.dumps(cmd).encode("utf-8")) for the dict DaemonClient.connect
\* builds: command, server, protocol, cookie, no_dtls, username, usergroup
EncodedLen(request) ==
    2 + ItemLen("command", TRUE, JsonStringLen(Len(request.command.v)), TRUE)
      + ItemLen("server", request.server.t = "str",
                JsonStringLen(Len(request.server.v)), FALSE)
      + ItemLen("protocol", request.protocol.t = "str",
                IF request.protocol.t = "str"
                THEN JsonStringLen(Len(request.protocol.v)) ELSE 0, FALSE)
      + ItemLen("cookie", request.cookie.t = "str",
                JsonStringLen(Len(request.cookie.v)), FALSE)
      + ItemLen("no_dtls", TRUE, IF request.no_dtls THEN 4 ELSE 5, FALSE)
      + ItemLen("username", request.username.t = "str",
                JsonStringLen(Len(request.username.v)), FALSE)
      + ItemLen("usergroup", request.usergroup.t = "str",
                JsonStringLen(Len(request.usergroup.v)), FALSE)

\* the number of bytes conn.recv(65536) returns when the whole request has
\* arrived: at most RECV_SIZE
Received(request) ==
    IF EncodedLen(request) <= RECV_SIZE THEN EncodedLen(request) ELSE RECV_SIZE

\* json.loads accepts the bytes read: a JSON object cut short does not parse
ParsesAsSent(request) == Received(request) = EncodedLen(request)

\* a cookie of n letters
LongCookie(n) == [i \in 1..n |-> LOWER_A]

\* the cookie lengths SpecL draws: from Margin below the limit to one above
CookieLengths == (MAX_COOKIE_LEN - Margin)..(MAX_COOKIE_LEN + 1)

LongRequests ==
    {[ConnectRequest(p) EXCEPT !.cookie = JStr(LongCookie(n))] :
        p \in VALID_PROTOCOLS, n \in CookieLengths}

InitL ==
    /\ vreq \in LongRequests
    /\ vstage = "sent"
    /\ vverdict = NoVerdict
    /\ vcmd = <<>>
    /\ vstdin = <<>>
    /\ DaemonInit
    /\ ClientInit

\* _handle_connection from conn.recv to json.loads
ReceiveBytes ==
    /\ vstage = "sent"
    /\ IF ParsesAsSent(vreq)
       THEN vstage' = "received" /\ sent' = NoResponse
       ELSE vstage' = "invalid_json"
            /\ sent' = Response("invalid", FALSE, "Invalid JSON")
    /\ UNCHANGED <<vreq, vverdict, vcmd, vstdin>>
    /\ UNCHANGED <<daemon, listener, procs, vpn_process, pid_file, output_lines, lock, worker>>
    /\ UNCHANGED cvars

NextL == ReceiveBytes \/ Validate \/ Spawn

SpecL == InitL /\ [][NextL]_vars

(***************************************************************************)
(* Spec: the daemon                                                        *)
(***************************************************************************)
Init ==
    /\ vreq = NoRequest
    /\ vstage = "unused"
    /\ vverdict = NoVerdict
    /\ vcmd = <<>>
    /\ vstdin = <<>>
    /\ DaemonInit
    /\ ClientInit

\* a dispatch that is not serialised: the block is entered at once
LockNeverHeld == TRUE

\* `with self._lock:` can be entered
LockFree == lock = 0

\* a start that leaves the pid file as it found it
recover_nothing(ps, pf) == pf

\* _recover_orphaned_process: the pid file it leaves
recover_orphaned_process(ps, pf) ==
    IF find_openconnect(ps) # 0 THEN File(find_openconnect(ps)) ELSE pf

\* VPNDaemon.start up to the accept loop
Start ==
    /\ daemon = "constructed"
    /\ daemon' = "listening"
    /\ listener' = Listening
    /\ pid_file' = recover_orphaned_process(procs, pid_file)
    /\ UNCHANGED <<procs, vpn_process, output_lines, lock, worker>>
    /\ sent' = NoResponse
    /\ UNCHANGED <<vvars, cvars>>

\* a handler without the validation step: every payload that parses as
\* JSON goes on to the dispatch
HandleConnectionUnvalidated(w, data) ==
    /\ daemon = "listening"
    /\ listener.running \/ listener.accept_pending
    /\ worker[w].pc = "idle"
    /\ listener' = [listener EXCEPT !.accept_pending = FALSE]
    /\ IF data.empty
       THEN Closes(w)
       ELSE IF ~data.json
       THEN Returns(w, Response("invalid", FALSE, "Invalid JSON"))
       ELSE /\ worker' = [worker EXCEPT ![w] =
                             [IdleWorker EXCEPT !.pc = "lock", !.request = data.request]]
            /\ sent' = NoResponse
    /\ UNCHANGED <<daemon, procs, vpn_process, pid_file, output_lines, lock>>
    /\ UNCHANGED <<vvars, cvars>>

\* the accept loop starts a thread for the connection; then
\* _handle_connection from its first line to the `with self._lock:` line
HandleConnection(w, data) ==
    /\ daemon = "listening"
    /\ listener.running \/ listener.accept_pending
    /\ worker[w].pc = "idle"
    /\ listener' = [listener EXCEPT !.accept_pending = FALSE]
    /\ IF data.empty
       THEN Closes(w)
       ELSE IF ~data.json
       THEN Returns(w, Response("invalid", FALSE, "Invalid JSON"))
       ELSE LET v == validate_request(data.request)
            IN  IF v.raised \/ ~v.ok
                THEN Returns(w, Response("invalid", FALSE, v.error))
                ELSE /\ worker' = [worker EXCEPT ![w] =
                                      [IdleWorker EXCEPT !.pc = "lock", !.request = data.request]]
                     /\ sent' = NoResponse
    /\ UNCHANGED <<daemon, procs, vpn_process, pid_file, output_lines, lock>>
    /\ UNCHANGED <<vvars, cvars>>

\* the message of the exception subprocess.Popen raises when it fails:
\* FileNotFoundError, or another one (PermissionError) reported by str(e)
SpawnErrors == {"openconnect not found in PATH", "Permission denied"}

\* a spawn failure that returns from the `with self._lock:` block with the
\* lock still held
spawn_failed_holding_lock(w, ps, e) ==
    /\ Returns(w, Response("connect", FALSE, e))
    /\ procs' = ps
    /\ output_lines' = <<>>
    /\ lock' = w
    /\ UNCHANGED <<vpn_process, pid_file>>

\* subprocess.Popen raises: _cmd_connect's except clauses return the error
spawn_failed(w, ps, e) ==
    /\ Returns(w, Response("connect", FALSE, e))
    /\ procs' = ps
    /\ output_lines' = <<>>
    /\ UNCHANGED <<vpn_process, pid_file, lock>>

\* _cmd_connect from its first line to the time.sleep(2) after the spawn
cmd_connect(w) ==
    LET request == worker[w].request
        ps == AfterPoll(procs, vpn_process)
        existing == find_openconnect(ps)
    IN  IF PollIsNone(procs, vpn_process)
        THEN /\ Returns(w, Response("connect", FALSE, "Already connected"))
             /\ UNCHANGED <<procs, vpn_process, pid_file, output_lines, lock>>
        ELSE IF existing # 0
        THEN /\ Returns(w, [Response("connect", FALSE, "OpenConnect already running")
                               EXCEPT !.pid = existing])
             /\ procs' = ps
             /\ UNCHANGED <<vpn_process, pid_file, output_lines, lock>>
        ELSE \/ \E e \in SpawnErrors : spawn_failed(w, ps, e)
             \/ \E p \in Pids :
                  /\ ps[p].st = "absent"
                  /\ vpn_process' = Popen(p)
                  /\ output_lines' = <<>>
                  /\ \/ /\ procs' = [ps EXCEPT ![p] = Proc("openconnect", TRUE)]
                        /\ pid_file' = File(p)
                        /\ lock' = w
                        /\ worker' = [worker EXCEPT ![w].pc = "connect_wait", ![w].i = 0]
                        /\ sent' = NoResponse
                     \/ \* the child exits before the cookie is written: BrokenPipeError
                        /\ UseStdin(request)
                        /\ procs' = [ps EXCEPT ![p] = [Proc("openconnect", TRUE) EXCEPT !.st = "zombie"]]
                        /\ Returns(w, Response("connect", FALSE, "Broken pipe"))
                        /\ UNCHANGED <<pid_file, lock>>

\* a grace loop that looks for the markers before it looks at the child
poll_outcome_markers_first(alive, lines, i) ==
    IF HasSuccessMarker(lines) THEN "connected"
    ELSE IF HasAuthFailure(lines) THEN "auth_failed"
    ELSE IF ~alive THEN "exited"
    ELSE IF i + 1 < POLL_ITERATIONS THEN "continue"
    ELSE "timeout"

\* what one iteration of _cmd_connect's grace loop decides, i iterations
\* having been completed before it: the checks in the order of the code
poll_outcome(alive, lines, i) ==
    IF ~alive THEN "exited"
    ELSE IF HasSuccessMarker(lines) THEN "connected"
    ELSE IF HasAuthFailure(lines) THEN "auth_failed"
    ELSE IF i + 1 < POLL_ITERATIONS THEN "continue"
    ELSE "timeout"

\* one iteration of _cmd_connect's grace loop: time.sleep(1) and the checks
connect_poll(w) ==
    LET outcome == poll_outcome(PollIsNone(procs, vpn_process), output_lines, worker[w].i)
    IN
    /\ worker[w].pc = "connect_wait"
    /\ IF ~vpn_process.set
       THEN \* self._vpn_process is None: AttributeError
            /\ Returns(w, Response("connect", FALSE, "AttributeError"))
            /\ lock' = 0
            /\ UNCHANGED <<procs, vpn_process, pid_file, output_lines>>
       ELSE IF outcome = "exited"
       THEN /\ Returns(w, [Response("connect", FALSE, "OpenConnect failed")
                              EXCEPT !.lines = LastLines(output_lines, ERROR_TAIL)])
            /\ procs' = AfterPoll(procs, vpn_process)
            /\ vpn_process' = None
            /\ pid_file' = NoFile
            /\ lock' = 0
            /\ UNCHANGED output_lines
       ELSE IF outcome = "connected"
       THEN /\ Returns(w, [Response("connect", TRUE, "") EXCEPT !.pid = vpn_process.pid])
            /\ lock' = 0
            /\ UNCHANGED <<procs, vpn_process, pid_file, output_lines>>
       ELSE IF outcome = "auth_failed"
       THEN /\ Returns(w, Response("connect", FALSE, "Authentication failed"))
            /\ lock' = 0
            /\ UNCHANGED <<procs, vpn_process, pid_file, output_lines>>
       ELSE IF outcome = "continue"
       THEN /\ worker' = [worker EXCEPT ![w].i = @ + 1]
            /\ UNCHANGED <<procs, vpn_process, pid_file, output_lines, lock>>
            /\ sent' = NoResponse
       ELSE /\ Returns(w, [Response("connect", TRUE, "") EXCEPT !.pid = vpn_process.pid])
            /\ lock' = 0
            /\ UNCHANGED <<procs, vpn_process, pid_file, output_lines>>

\* the signal kill_process sends: proc.terminate()
kill_signal == "SIGTERM"

\* a disconnect that looks for a process by name before anything else
disconnect_target_by_name(ps, h, pf) ==
    LET after == AfterPoll(ps, h)
        tracked == IF PollIsNone(ps, h) THEN h.pid
                   ELSE IF pf.exists /\ is_process_running(after, pf.pid)
                        THEN pf.pid ELSE 0
    IN  IF find_openconnect(after) # 0 THEN find_openconnect(after) ELSE tracked

\* the pid _cmd_disconnect resolves, 0 for None: the managed process if it
\* has not exited, else the pid of the pid file if that process runs, else
\* the process find_openconnect returns
disconnect_target(ps, h, pf) ==
    LET after == AfterPoll(ps, h)
        tracked == IF PollIsNone(ps, h) THEN h.pid
                   ELSE IF pf.exists /\ is_process_running(after, pf.pid)
                        THEN pf.pid ELSE 0
    IN  IF tracked # 0 THEN tracked ELSE find_openconnect(after)

\* _cmd_disconnect from its first line into kill_process: the pid is
\* resolved, proc.terminate() sends SIGTERM to it and proc.wait begins
cmd_disconnect(w) ==
    LET ps == AfterPoll(procs, vpn_process)
        pid == disconnect_target(procs, vpn_process, pid_file)
    IN  IF pid = 0
        THEN /\ Returns(w, Response("disconnect", FALSE, "Not connected"))
             /\ procs' = ps
             /\ UNCHANGED <<vpn_process, pid_file, output_lines, lock>>
        ELSE /\ procs' = ps
             /\ lock' = w
             /\ worker' = [worker EXCEPT ![w].pc = "kill_wait", ![w].pid = pid,
                                         ![w].sig = kill_signal]
             /\ UNCHANGED <<vpn_process, pid_file, output_lines>>
             /\ sent' = NoResponse

\* a kill_process that reports success without waiting for the process
kill_wait_done_unchecked(w) ==
    /\ worker[w].pc = "kill_wait"
    /\ vpn_process' = None
    /\ pid_file' = NoFile
    /\ lock' = 0
    /\ Returns(w, Response("disconnect", TRUE, ""))
    /\ UNCHANGED <<procs, output_lines>>

\* kill_process's proc.wait(timeout) returns: the process is gone (a child
\* that exited is reaped by the wait); then _cmd_disconnect's cleanup
kill_wait_done(w) ==
    LET pid == worker[w].pid
    IN  /\ worker[w].pc = "kill_wait"
        /\ \/ procs[pid].st = "absent"
           \/ procs[pid].st = "zombie" /\ procs[pid].child
        /\ procs' = [procs EXCEPT ![pid] = NoProc]
        /\ vpn_process' = None
        /\ pid_file' = NoFile
        /\ lock' = 0
        /\ Returns(w, Response("disconnect", TRUE, ""))
        /\ UNCHANGED output_lines

\* kill_process's proc.wait(timeout) raises TimeoutExpired: kill_process
\* returns False; then _cmd_disconnect's cleanup
kill_wait_timeout(w) ==
    LET pid == worker[w].pid
    IN  /\ worker[w].pc = "kill_wait"
        /\ procs[pid].st = "running"
        /\ vpn_process' = None
        /\ pid_file' = NoFile
        /\ lock' = 0
        /\ Returns(w, Response("disconnect", FALSE, "Failed to stop process"))
        /\ UNCHANGED <<procs, output_lines>>

\* a status that trusts the pid file without asking whether its process runs
status_view_by_file(ps, h, pf) ==
    LET managed == PollIsNone(ps, h)
        by_file == ~managed /\ pf.exists
        by_name == IF managed \/ by_file THEN 0 ELSE find_openconnect(AfterPoll(ps, h))
    IN  [connected |-> managed \/ by_file \/ by_name # 0,
         pid |-> IF managed THEN h.pid ELSE IF by_file THEN pf.pid ELSE by_name]

\* what _cmd_status reports as connected and pid (0 for null): the managed
\* process, else the running process of the pid file, else one found by name
status_view(ps, h, pf) ==
    LET after == AfterPoll(ps, h)
        managed == PollIsNone(ps, h)
        by_file == ~managed /\ pf.exists /\ is_process_running(after, pf.pid)
        by_name == IF managed \/ by_file THEN 0 ELSE find_openconnect(after)
    IN  [connected |-> managed \/ by_file \/ by_name # 0,
         pid |-> IF managed THEN h.pid ELSE IF by_file THEN pf.pid ELSE by_name]

\* _cmd_status
cmd_status(w) ==
    LET ps == AfterPoll(procs, vpn_process)
        view == status_view(procs, vpn_process, pid_file)
        stale == /\ ~PollIsNone(procs, vpn_process)
                 /\ pid_file.exists
                 /\ ~is_process_running(ps, pid_file.pid)
    IN  /\ Returns(w, [Response("status", TRUE, "") EXCEPT
                          !.connected = view.connected,
                          !.pid = view.pid,
                          !.info = get_process_info(ps, view.pid)])
        /\ procs' = ps
        /\ pid_file' = IF stale THEN NoFile ELSE pid_file
        /\ UNCHANGED <<vpn_process, output_lines, lock>>

\* _cmd_output
cmd_output(w) ==
    /\ Returns(w, [Response("output", TRUE, "") EXCEPT
                      !.lines = LastLines(output_lines, OUTPUT_TAIL)])
    /\ UNCHANGED <<procs, vpn_process, pid_file, output_lines, lock>>

\* _handle_connection's `with self._lock:` block, entered
Dispatch(w) ==
    /\ worker[w].pc = "lock"
    /\ LockFree
    /\ \/ worker[w].request.command.v = "connect" /\ cmd_connect(w)
       \/ worker[w].request.command.v = "disconnect" /\ cmd_disconnect(w)
       \/ worker[w].request.command.v = "status" /\ cmd_status(w)
       \/ worker[w].request.command.v = "output" /\ cmd_output(w)
    /\ UNCHANGED <<daemon, listener>>
    /\ UNCHANGED <<vvars, cvars>>

\* the grace loop and the wait, which run with the lock held
InFlightStep(w) ==
    /\ \/ connect_poll(w)
       \/ kill_wait_done(w)
       \/ kill_wait_timeout(w)
    /\ UNCHANGED <<daemon, listener>>
    /\ UNCHANGED <<vvars, cvars>>

\* _read_output: the reader thread appends one line the child wrote
ReadOutputUpTo(line, n) ==
    /\ daemon = "listening"
    /\ \E p \in Pids : procs[p].child /\ procs[p].st = "running"
    /\ Len(output_lines) < n
    /\ output_lines' = AppendLine(output_lines, line)
    /\ UNCHANGED <<daemon, listener, procs, vpn_process, pid_file, lock, worker>>
    /\ sent' = NoResponse
    /\ UNCHANGED <<vvars, cvars>>

\* the reader thread in Spec, where a child emits at most MaxOut lines
ReadOutput(line) == ReadOutputUpTo(line, MaxOut)

\* the tunnel child exits; it stays a zombie until the daemon waits for it
ChildExit(p) ==
    /\ procs[p].child /\ procs[p].st = "running"
    /\ procs' = [procs EXCEPT ![p].st = "zombie"]
    /\ UNCHANGED <<daemon, listener, vpn_process, pid_file, output_lines, lock, worker>>
    /\ sent' = NoResponse
    /\ UNCHANGED <<vvars, cvars>>

\* an openconnect that is no child of the daemon starts (left by an earlier
\* daemon, or started by hand)
ExternalStart(p) ==
    /\ procs[p].st = "absent"
    /\ procs' = [procs EXCEPT ![p] = Proc("openconnect", FALSE)]
    /\ UNCHANGED <<daemon, listener, vpn_process, pid_file, output_lines, lock, worker>>
    /\ sent' = NoResponse
    /\ UNCHANGED <<vvars, cvars>>

\* a process that is no child of the daemon exits and is reaped by its parent
ExternalExit(p) ==
    /\ ~procs[p].child /\ procs[p].st = "running"
    /\ procs' = [procs EXCEPT ![p] = NoProc]
    /\ UNCHANGED <<daemon, listener, vpn_process, pid_file, output_lines, lock, worker>>
    /\ sent' = NoResponse
    /\ UNCHANGED <<vvars, cvars>>

Next ==
    \/ Start
    \/ \E w \in Workers, data \in DaemonInputs : HandleConnection(w, data)
    \/ \E w \in Workers : Dispatch(w)
    \/ \E w \in Workers : InFlightStep(w)
    \/ \E line \in OutputLines : ReadOutput(line)
    \/ \E p \in Pids : ChildExit(p)
    \/ \E p \in Pids : ExternalStart(p)
    \/ \E p \in Pids : ExternalExit(p)

Spec == Init /\ [][Next]_vars

(***************************************************************************)
(* SpecG: one tunnel session, from the moment _cmd_connect has spawned the *)
(* child, with disconnect requests of both kinds                           *)
(***************************************************************************)
\* the disconnect requests clients send: keep-alive and forceful
SessionInputs == {Data(TRUE, DisconnectRequest(force)) : force \in BOOLEAN}

\* the state the spawn of cmd_connect leaves: worker 1 enters the grace loop
InitG ==
    /\ vreq = NoRequest
    /\ vstage = "unused"
    /\ vverdict = NoVerdict
    /\ vcmd = <<>>
    /\ vstdin = <<>>
    /\ daemon = "listening"
    /\ listener = Listening
    /\ procs = [p \in Pids |-> IF p = 1 THEN Proc("openconnect", TRUE) ELSE NoProc]
    /\ vpn_process = Popen(1)
    /\ pid_file = File(1)
    /\ output_lines = <<>>
    /\ lock = 1
    /\ worker = [w \in Workers |->
                   IF w = 1 THEN [IdleWorker EXCEPT !.pc = "connect_wait",
                                                    !.request = ConnectRequest("gp")]
                   ELSE IdleWorker]
    /\ sent = NoResponse
    /\ ClientInit

NextG ==
    \/ \E w \in Workers, data \in SessionInputs : HandleConnection(w, data)
    \/ \E w \in Workers : Dispatch(w)
    \/ \E w \in Workers : InFlightStep(w)
    \/ \E line \in OutputLines : ReadOutputUpTo(line, MaxOutG)
    \/ \E p \in Pids : ChildExit(p)

SpecG == InitG /\ [][NextG]_vars

(***************************************************************************)
(* SpecD: the daemon with its shutdown on SIGTERM or SIGINT                *)
(***************************************************************************)
\* the signals start() installs _handle_signal for
Signals == {"SIGTERM", "SIGINT"}

\* _handle_signal: self._running = False.  The accept() call the signal
\* interrupted is resumed and may still return one connection.
handle_signal(sig) ==
    /\ daemon = "listening"
    /\ listener.running
    /\ listener' = [listener EXCEPT !.running = FALSE, !.accept_pending = TRUE]
    /\ UNCHANGED <<daemon, procs, vpn_process, pid_file, output_lines, lock, worker>>
    /\ sent' = NoResponse
    /\ UNCHANGED <<vvars, cvars>>

\* a cleanup that closes the socket and leaves the socket file
closed_listener_keeping_file(l) ==
    [l EXCEPT !.accept_pending = FALSE, !.socket = "closed"]

\* _cleanup: the socket is closed and the socket file removed
closed_listener(l) ==
    [l EXCEPT !.accept_pending = FALSE, !.socket = "closed", !.file = FALSE]

\* the process table once the daemon process has exited: its children are
\* adopted by init, which reaps those that have exited
orphaned(ps) ==
    [p \in Pids |->
        IF ~ps[p].child THEN ps[p]
        ELSE IF ps[p].st = "zombie" THEN NoProc
        ELSE [ps[p] EXCEPT !.child = FALSE]]

\* the accept loop sees self._running False and ends, _cleanup runs, start()
\* and main() return and the process exits with its daemon threads
cleanup ==
    /\ daemon = "listening"
    /\ ~listener.running
    /\ daemon' = "stopped"
    /\ listener' = closed_listener(listener)
    /\ procs' = orphaned(procs)
    /\ vpn_process' = None
    /\ output_lines' = <<>>
    /\ lock' = 0
    /\ worker' = [w \in Workers |-> IdleWorker]
    /\ sent' = NoResponse
    /\ UNCHANGED pid_file
    /\ UNCHANGED <<vvars, cvars>>

\* the payloads of SpecD: those of Spec, and a connection the peer closes
\* without sending
ShutdownInputs == DaemonInputs \cup {NoData}

NextD ==
    \/ Start
    \/ \E w \in Workers, data \in ShutdownInputs : HandleConnection(w, data)
    \/ \E w \in Workers : Dispatch(w)
    \/ \E w \in Workers : InFlightStep(w)
    \/ \E line \in OutputLines : ReadOutput(line)
    \/ \E p \in Pids : ChildExit(p)
    \/ \E p \in Pids : ExternalStart(p)
    \/ \E p \in Pids : ExternalExit(p)
    \/ \E sig \in Signals : handle_signal(sig)
    \/ cleanup

\* the accept call times out after one second, so the loop's test of
\* self._running is reached
SpecD == Init /\ [][NextD]_vars /\ WF_vars(cleanup)

(***************************************************************************)
(* SpecP: the daemon on a host where processes other than openconnect      *)
(* start and exit, so that a pid the daemon recorded can come to belong to *)
(* another program                                                         *)
(***************************************************************************)
\* a process that is not the tunnel binary starts (psutil reports its name)
UnrelatedStart(p) ==
    /\ procs[p].st = "absent"
    /\ procs' = [procs EXCEPT ![p] = Proc("sshd", FALSE)]
    /\ UNCHANGED <<daemon, listener, vpn_process, pid_file, output_lines, lock, worker>>
    /\ sent' = NoResponse
    /\ UNCHANGED <<vvars, cvars>>

\* the payloads of SpecP
PidReuseInputs ==
    {Data(TRUE, CommandRequest(JStr(c))) : c \in {"disconnect", "status"}}
    \cup {Data(TRUE, ConnectRequest("gp"))}

NextP ==
    \/ Start
    \/ \E w \in Workers, data \in PidReuseInputs : HandleConnection(w, data)
    \/ \E w \in Workers : Dispatch(w)
    \/ \E w \in Workers : InFlightStep(w)
    \/ \E p \in Pids : ChildExit(p)
    \/ \E p \in Pids : ExternalStart(p)
    \/ \E p \in Pids : ExternalExit(p)
    \/ \E p \in Pids : UnrelatedStart(p)

SpecP == Init /\ [][NextP]_vars

(***************************************************************************)
(* SpecO: the reader thread and output requests while one child runs and   *)
(* writes up to MaxLines lines.  The k-th line the child writes is the     *)
(* number k.  The reader thread takes no lock: its append and its pop are  *)
(* two steps, between which the handler threads run.                       *)
(***************************************************************************)
\* the number of lines the reader has read from the child
LinesRead == IF output_lines = <<>> THEN 0 ELSE output_lines[Len(output_lines)]

\* after a connect that succeeded: the child runs, the lock is free
InitO ==
    /\ vreq = NoRequest
    /\ vstage = "unused"
    /\ vverdict = NoVerdict
    /\ vcmd = <<>>
    /\ vstdin = <<>>
    /\ daemon = "listening"
    /\ listener = Listening
    /\ procs = [p \in Pids |-> IF p = 1 THEN Proc("openconnect", TRUE) ELSE NoProc]
    /\ vpn_process = Popen(1)
    /\ pid_file = File(1)
    /\ output_lines = <<>>
    /\ lock = 0
    /\ worker = [w \in Workers |-> IdleWorker]
    /\ sent = NoResponse
    /\ ClientInit

\* _read_output: self._output_lines.append(line)
read_append ==
    /\ \E p \in Pids : procs[p].child /\ procs[p].st = "running"
    /\ Len(output_lines) <= OUTPUT_RING
    /\ LinesRead < MaxLines
    /\ output_lines' = Append(output_lines, LinesRead + 1)
    /\ UNCHANGED <<daemon, listener, procs, vpn_process, pid_file, lock, worker>>
    /\ sent' = NoResponse
    /\ UNCHANGED <<vvars, cvars>>

\* _read_output: `if len(self._output_lines) > 100: self._output_lines.pop(0)`
read_trim ==
    /\ Len(output_lines) > OUTPUT_RING
    /\ output_lines' = Tail(output_lines)
    /\ UNCHANGED <<daemon, listener, procs, vpn_process, pid_file, lock, worker>>
    /\ sent' = NoResponse
    /\ UNCHANGED <<vvars, cvars>>

\* the payloads of SpecO
OutputInputs == {Data(TRUE, CommandRequest(JStr(c))) : c \in {"output", "status"}}

NextO ==
    \/ \E w \in Workers, data \in OutputInputs : HandleConnection(w, data)
    \/ \E w \in Workers : Dispatch(w)
    \/ read_append
    \/ read_trim

SpecO == InitO /\ [][NextO]_vars

(***************************************************************************)
(* SpecR: the daemon with the wait for the client's bytes made a state of  *)
(* the worker: pc "recv" is a handler thread blocked in conn.recv          *)
(***************************************************************************)
\* a listener whose handler takes the session lock before it reads
accept_connection_locked(w) ==
    /\ daemon = "listening"
    /\ listener.running \/ listener.accept_pending
    /\ worker[w].pc = "idle"
    /\ LockFree
    /\ lock' = w
    /\ listener' = [listener EXCEPT !.accept_pending = FALSE]
    /\ worker' = [worker EXCEPT ![w].pc = "recv"]
    /\ UNCHANGED <<daemon, procs, vpn_process, pid_file, output_lines>>
    /\ sent' = NoResponse
    /\ UNCHANGED <<vvars, cvars>>

\* the accept loop: accept() returns a connection and a daemon thread is
\* started for it; the thread sets the 30 s timeout and calls conn.recv
accept_connection(w) ==
    /\ daemon = "listening"
    /\ listener.running \/ listener.accept_pending
    /\ worker[w].pc = "idle"
    /\ listener' = [listener EXCEPT !.accept_pending = FALSE]
    /\ worker' = [worker EXCEPT ![w].pc = "recv"]
    /\ UNCHANGED <<daemon, procs, vpn_process, pid_file, output_lines, lock>>
    /\ sent' = NoResponse
    /\ UNCHANGED <<vvars, cvars>>

\* conn.recv returns: _handle_connection from there to the
\* `with self._lock:` line
receive(w, data) ==
    /\ worker[w].pc = "recv"
    /\ IF data.empty
       THEN Closes(w)
       ELSE IF ~data.json
       THEN Returns(w, Response("invalid", FALSE, "Invalid JSON"))
       ELSE LET v == validate_request(data.request)
            IN  IF v.raised \/ ~v.ok
                THEN Returns(w, Response("invalid", FALSE, v.error))
                ELSE /\ worker' = [worker EXCEPT ![w] =
                                      [IdleWorker EXCEPT !.pc = "lock", !.request = data.request]]
                     /\ sent' = NoResponse
    /\ UNCHANGED <<daemon, listener, procs, vpn_process, pid_file, output_lines, lock>>
    /\ UNCHANGED <<vvars, cvars>>

\* conn.recv raises socket.timeout after 30 s: the `except Exception` clause
\* writes the error and the finally clause closes the connection
recv_timeout(w) ==
    /\ worker[w].pc = "recv"
    /\ Returns(w, Response("invalid", FALSE, "timed out"))
    /\ UNCHANGED <<daemon, listener, procs, vpn_process, pid_file, output_lines, lock>>
    /\ UNCHANGED <<vvars, cvars>>

NextR ==
    \/ Start
    \/ \E w \in Workers : accept_connection(w)
    \/ \E w \in Workers, data \in ShutdownInputs : receive(w, data)
    \/ \E w \in Workers : recv_timeout(w)
    \/ \E w \in Workers : Dispatch(w)
    \/ \E w \in Workers : InFlightStep(w)
    \/ \E line \in OutputLines : ReadOutput(line)
    \/ \E p \in Pids : ChildExit(p)

SpecR == Init /\ [][NextR]_vars

(***************************************************************************)
(* SpecC: DaemonClient._send against any peer.  The bytes of a reply are   *)
(* drawn from the JSON syntax characters below; over them a JSON value is  *)
(* a number (digits), the empty object, the empty array or an array of one *)
(* value.                                                                  *)
(***************************************************************************)
DIGIT_ONE == 49
LBRACKET == 91
RBRACKET == 93
LBRACE == 123
RBRACE == 125
ReplyBytes == {DIGIT_ONE, LBRACKET, RBRACKET, LBRACE, RBRACE}

RECURSIVE JsonValue(_)
\* the text s is exactly one JSON value
JsonValue(s) ==
    \/ Len(s) >= 1 /\ \A i \in DOMAIN s : s[i] = DIGIT_ONE
    \/ s = <<LBRACE, RBRACE>>
    \/ s = <<LBRACKET, RBRACKET>>
    \/ /\ Len(s) >= 3
       /\ s[1] = LBRACKET
       /\ s[Len(s)] = RBRACKET
       /\ JsonValue(SubSeq(s, 2, Len(s) - 1))

\* json.loads(data): ok is FALSE for JSONDecodeError; the value is given by
\* its type and its text
json_loads(s) ==
    IF ~JsonValue(s) THEN [ok |-> FALSE, t |-> "", text |-> <<>>]
    ELSE [ok |-> TRUE,
          t |-> IF s[1] = LBRACE THEN "object"
                ELSE IF s[1] = LBRACKET THEN "array" ELSE "number",
          text |-> s]

Replies == UNION {[1..n -> ReplyBytes] : n \in 0..MaxReply}
Sockets == {"ok", "absent", "refused", "denied"}

\* a client that turns every failure of connect() into the base error
connect_error_untyped(socket) ==
    [type |-> "DaemonError", message |-> "Cannot connect to daemon"]

\* the except clauses around sock.connect
connect_error(socket) ==
    CASE socket = "absent" ->
           [type |-> "DaemonNotRunning",
            message |-> "Daemon not running. Start with: sudo ms-sso-openconnect-daemon"]
      [] socket = "refused" ->
           [type |-> "DaemonNotRunning",
            message |-> "Daemon not responding. Restart with: sudo ms-sso-openconnect-daemon"]
      [] OTHER -> [type |-> "DaemonError", message |-> "Cannot connect to daemon"]

\* the client raises
Raises(c, type, message) ==
    [c EXCEPT !.pc = "raised", !.error = type, !.message = message]

\* b"".join(chunks)
Chunks(c) == SubSeq(c.reply, 1, c.received)

InitC ==
    /\ vreq = NoRequest
    /\ vstage = "unused"
    /\ vverdict = NoVerdict
    /\ vcmd = <<>>
    /\ vstdin = <<>>
    /\ DaemonInit
    /\ client \in {Client(socket, reply) : socket \in Sockets, reply \in Replies}
    /\ backend = NoBackend

\* sock.connect and, when it succeeds, sock.send of the command
c_connect ==
    /\ client.pc = "init"
    /\ client' = IF client.socket = "ok" THEN [client EXCEPT !.pc = "recv"]
                  ELSE Raises(client, connect_error(client.socket).type,
                                      connect_error(client.socket).message)
    /\ UNCHANGED <<vvars, dvars, backend>>

\* sock.recv returns the next k bytes; the chunk is appended and the bytes
\* received so far are parsed: a value is returned, JSONDecodeError goes on
c_recv(k) ==
    LET after == [client EXCEPT !.received = @ + k, !.nchunks = @ + 1, !.event = "chunk"]
        parsed == json_loads(Chunks(after))
    IN  /\ client.pc = "recv"
        /\ client.received + k <= Len(client.reply)
        /\ client' = IF parsed.ok
                      THEN [after EXCEPT !.pc = "returned", !.result = parsed]
                      ELSE after
        /\ UNCHANGED <<vvars, dvars, backend>>

\* sock.recv returns b"": the peer has closed; the final attempt to parse
c_eof ==
    LET data == Chunks(client)
        parsed == json_loads(data)
        closed == [client EXCEPT !.event = "eof"]
    IN  /\ client.pc = "recv"
        /\ client.received = Len(client.reply)
        /\ client' = IF data = <<>>
                      THEN Raises(closed, "DaemonError", "Empty response from daemon")
                      ELSE IF parsed.ok
                      THEN [closed EXCEPT !.pc = "returned", !.result = parsed]
                      ELSE Raises(closed, "DaemonError", "Invalid response from daemon")
        /\ UNCHANGED <<vvars, dvars, backend>>

\* sock.recv raises socket.timeout, or another OSError (kind "reset")
c_recv_fails(kind) ==
    /\ client.pc = "recv"
    /\ client' = IF kind = "timeout"
                  THEN Raises([client EXCEPT !.event = "timeout"], "DaemonError",
                              "Timeout waiting for daemon response")
                  ELSE Raises([client EXCEPT !.event = "reset"], "DaemonError",
                              "Communication error")
    /\ UNCHANGED <<vvars, dvars, backend>>

NextC ==
    \/ c_connect
    \/ \E k \in 1..MaxReply : c_recv(k)
    \/ c_eof
    \/ \E kind \in {"timeout", "reset"} : c_recv_fails(kind)

SpecC == InitC /\ [][NextC]_vars

(***************************************************************************)
(* SpecB: get_backend called from NumCallers threads                       *)
(***************************************************************************)
Callers == 1..NumCallers

\* get_backend's `if _backend_instance is None:`
gb_test(t) ==
    /\ backend.caller[t].pc = "idle"
    /\ backend.caller[t].calls < MaxCalls
    /\ backend' = [backend EXCEPT
                      !.caller[t].calls = @ + 1,
                      !.caller[t].pc = IF backend.instance = 0 THEN "construct" ELSE "return"]
    /\ UNCHANGED <<vvars, dvars, client>>

\* `_backend_instance = VPNBackend()`: a new object is made and stored
gb_construct(t) ==
    /\ backend.caller[t].pc = "construct"
    /\ backend' = [backend EXCEPT !.made = @ + 1, !.instance = backend.made + 1,
                                   !.caller[t].pc = "return"]
    /\ UNCHANGED <<vvars, dvars, client>>

\* VPNBackend() raises (the script is not found): the call ends with the
\* exception and nothing is stored
gb_construct_fails(t) ==
    /\ backend.caller[t].pc = "construct"
    /\ backend' = [backend EXCEPT !.caller[t].pc = "idle"]
    /\ UNCHANGED <<vvars, dvars, client>>

\* `return _backend_instance`
gb_return(t) ==
    /\ backend.caller[t].pc = "return"
    /\ backend' = [backend EXCEPT !.returned = @ \cup {backend.instance},
                                   !.caller[t].pc = "idle"]
    /\ UNCHANGED <<vvars, dvars, client>>

NextB ==
    \/ \E t \in Callers : gb_test(t)
    \/ \E t \in Callers : gb_construct(t)
    \/ \E t \in Callers : gb_construct_fails(t)
    \/ \E t \in Callers : gb_return(t)

SpecB == Init /\ [][NextB]_vars

(***************************************************************************)
(* Properties                                                              *)
(***************************************************************************)
\* a connect or disconnect holds the lock across several steps
InFlight(w) == worker[w].pc \in {"connect_wait", "kill_wait"}

\* the tunnel children of the daemon that are running
LiveChildren == {p \in Pids : procs[p].child /\ procs[p].st = "running"}

\* worker w enters the lock with a request of this command and runs it
Runs(w, command) ==
    /\ worker[w].pc = "lock"
    /\ worker[w].request.command.v = command
    /\ worker'[w].pc # "lock"

\* a running process is named exactly openconnect
OpenconnectRuns ==
    \E p \in Pids : procs[p].st = "running" /\ procs[p].name = "openconnect"

\* C1: a connect request handled while the tracked child is alive, or while
\* a running process is named exactly openconnect, is answered success:false
\* and starts no process; at most one child of the daemon is alive at a time.
SingletonTunnel ==
    /\ [](Cardinality(LiveChildren) <= 1)
    /\ [][\A w \in Workers :
            (Runs(w, "connect") /\ OpenconnectRuns)
            => /\ sent'.kind = "connect" /\ ~sent'.success
               /\ \A p \in Pids : procs'[p].st # "absent" => procs[p].st # "absent"
               /\ worker'[w].pc = "idle"]_vars

\* C1 witness: a connect was refused while the daemon's child runs
SingletonTunnelWitness ==
    /\ sent.kind = "connect"
    /\ sent.error = "Already connected"
    /\ LiveChildren # {}

\* the untrusted string of an argv element stays in its field's class
ArgClean(a) ==
    CASE a.opt = "" -> \A k \in DOMAIN a.val : ServerChar(a.val[k])
      [] a.opt = "--user=" -> \A k \in DOMAIN a.val : UsernameChar(a.val[k])
      [] a.opt = "--usergroup=" -> \A k \in DOMAIN a.val : UsergroupChar(a.val[k])
      [] a.opt = "--cookie=" -> \A k \in DOMAIN a.val : CookieChar(a.val[k])
      [] OTHER -> a.val = <<>>

\* C2: every request string in the child's argv has only characters of its
\* field's class (so no control character, no NUL, no newline), and the
\* cookie written to stdin is one line: no control character before the
\* newline that ends it.
ValidatedStringsOnly ==
    vstage = "spawned"
    => /\ \A k \in DOMAIN vcmd : ArgClean(vcmd[k])
       /\ \A k \in 1..(Len(vstdin) - 1) : CookieChar(vstdin[k])

\* the characters a cookie must not contain: C0 controls, `;` and `,`
CookieForbidden(c) == (c >= 0 /\ c <= 31) \/ c = SEMICOLON \/ c = COMMA

\* C3: a connect request whose cookie is a string with a NUL, `;`, `,` or a
\* C0 control character at any position is rejected by validate_request.
CookieSoundness ==
    (/\ vstage # "received"
     /\ vreq.isdict
     /\ vreq.command.t = "str" /\ vreq.command.v = "connect"
     /\ vreq.cookie.t = "str"
     /\ \E k \in DOMAIN vreq.cookie.v : CookieForbidden(vreq.cookie.v[k]))
    => ~vverdict.ok

\* C4: at most one connect or disconnect is in flight.
OneTransitionInFlight == Cardinality({w \in Workers : InFlight(w)}) <= 1

\* C4 witness: a connect or disconnect waits for the lock while another
\* connect or disconnect is in flight
OneTransitionInFlightWitness ==
    \E w, u \in Workers :
        /\ InFlight(w)
        /\ worker[u].pc = "lock"
        /\ worker[u].request.command.v \in {"connect", "disconnect"}

\* C5: whenever no connect or disconnect is in flight, the daemon holds a
\* process handle if and only if a child it started is running.
HandleConsistent ==
    (\A w \in Workers : ~InFlight(w)) => (vpn_process.set <=> LiveChildren # {})

\* the payload is a request that is no JSON, or that validate_request does
\* not accept
Rejected(data) ==
    /\ ~data.empty
    /\ \/ ~data.json
       \/ ~validate_request(data.request).ok

\* C6: handling a payload that is no JSON or that the validator rejects
\* ends with a success:false response and changes neither the process
\* table, the handle, the pid file nor the output buffer; only requests the
\* validator accepted are ever held by a worker that goes on to the lock.
RejectedTouchesNothing ==
    /\ [](\A w \in Workers :
            worker[w].pc # "idle" => validate_request(worker[w].request).ok)
    /\ [][\A w \in Workers, data \in DaemonInputs :
            (HandleConnection(w, data) /\ Rejected(data))
            => /\ worker'[w].pc = "idle"
               /\ sent'.kind = "invalid" /\ ~sent'.success
               /\ UNCHANGED <<procs, vpn_process, pid_file, output_lines, lock>>]_vars

\* C6 witness: a request was rejected while the daemon's child runs
RejectedTouchesNothingWitness ==
    /\ sent.kind = "invalid"
    /\ sent.error = "Invalid server format"
    /\ LiveChildren # {}
    /\ pid_file.exists

\* C7: when a disconnect that signalled a process returns, that process is
\* not running any more, the pid file is removed and the handle is cleared.
DisconnectKills ==
    [][\A w \in Workers :
        (worker[w].pc = "kill_wait" /\ worker'[w].pc = "idle")
        => /\ procs'[worker[w].pid].st # "running"
           /\ ~pid_file'.exists
           /\ ~vpn_process'.set]_vars

\* the tracked child is dead and the pid file names no existing process
StaleSession ==
    /\ vpn_process.set
    /\ ~(procs[vpn_process.pid].child /\ procs[vpn_process.pid].st = "running")
    /\ pid_file.exists
    /\ procs[pid_file.pid].st # "running"

\* C8: a disconnect handled when the tracked child is dead and the pid file
\* is stale is answered success:true and leaves no pid file.
StaleDisconnectSucceeds ==
    [][\A w \in Workers :
        (Runs(w, "disconnect") /\ StaleSession /\ worker'[w].pc = "idle")
        => (sent'.success /\ ~pid_file'.exists)]_vars

\* C9: a status or output request never waits: whenever one stands before
\* the lock, the lock is free.
StatusNeverWaits ==
    \A w \in Workers :
        (worker[w].pc = "lock" /\ worker[w].request.command.v \in {"status", "output"})
        => lock = 0

\* C10: when a process named exactly openconnect exists as the daemon
\* starts, the start writes its pid to the pid file and starts no process;
\* a status request handled while that process still runs and no child was
\* started reports connected:true with the pid of the pid file.
OrphanRecovery ==
    /\ [][(daemon = "constructed" /\ daemon' = "listening" /\ OpenconnectRuns)
          => /\ pid_file'.exists
             /\ procs[pid_file'.pid].name = "openconnect"
             /\ \A p \in Pids : procs[p].name = "openconnect" => pid_file'.pid <= p
             /\ procs' = procs
             /\ ~vpn_process'.set]_vars
    /\ [][\A w \in Workers :
            (/\ Runs(w, "status")
             /\ ~vpn_process.set
             /\ pid_file.exists
             /\ procs[pid_file.pid].st = "running"
             /\ procs[pid_file.pid].name = "openconnect")
            => /\ sent'.kind = "status" /\ sent'.success
               /\ sent'.connected
               /\ sent'.pid = pid_file.pid
               /\ procs' = procs]_vars

\* C10 witness: status reported the recovered orphan: no child was started,
\* the pid file names a running openconnect and the response carries its pid
OrphanRecoveryWitness ==
    /\ sent.kind = "status"
    /\ sent.connected
    /\ ~vpn_process.set
    /\ \A p \in Pids : ~procs[p].child
    /\ pid_file.exists
    /\ sent.pid = pid_file.pid
    /\ procs[pid_file.pid].st = "running"

\* C11: a status request handled right after another status request, with
\* no other event between the two, reports the connected and pid values the
\* first one reported.
IdempotentStatus ==
    [][\A w \in Workers :
        Runs(w, "status")
        => LET again == status_view(procs', vpn_process', pid_file')
           IN  /\ sent'.kind = "status"
               /\ sent'.connected = again.connected
               /\ sent'.pid = again.pid]_vars

\* C11 witness: status found the tracked child dead, reaped it and reported
\* not connected
IdempotentStatusWitness ==
    /\ sent.kind = "status"
    /\ ~sent.connected
    /\ vpn_process.set
    /\ procs[vpn_process.pid].st = "absent"

\* the status a request would be given in the state a step leads to
NextStatus == status_view(procs', vpn_process', pid_file')

\* worker w's disconnect returns success:true
DisconnectSucceeds(w) ==
    /\ worker[w].pc = "kill_wait"
    /\ worker'[w].pc = "idle"
    /\ sent'.kind = "disconnect"
    /\ sent'.success

\* a process named openconnect other than pid exists after the step
OtherOpenconnect(pid) ==
    \E p \in Pids \ {pid} : procs'[p].st # "absent" /\ procs'[p].name = "openconnect"

\* C12 as stated: a status request that follows a disconnect answered
\* success:true reports connected:false and no pid.
DisconnectThenIdle ==
    [][\A w \in Workers :
        DisconnectSucceeds(w)
        => (~NextStatus.connected /\ NextStatus.pid = 0)]_vars

\* C12 amended: a status request that follows a disconnect answered
\* success:true reports connected:false and no pid, provided no process named
\* openconnect other than the one the disconnect stopped exists.
DisconnectThenIdleAlone ==
    [][\A w \in Workers :
        (DisconnectSucceeds(w) /\ ~OtherOpenconnect(worker[w].pid))
        => (~NextStatus.connected /\ NextStatus.pid = 0)]_vars

\* C12 witness: a disconnect of a tunnel that had produced output succeeded
\* and left no process named openconnect; the status handled next is the
\* one the property speaks of
DisconnectThenIdleWitness ==
    /\ sent.kind = "disconnect"
    /\ sent.success
    /\ output_lines # <<>>
    /\ \A p \in Pids : procs[p].st = "absent"
    /\ ~status_view(procs, vpn_process, pid_file).connected

\* C13: each poll of the grace loop decides by the first rule that applies:
\* the child has exited -> failure with the last lines of output, handle and
\* pid file cleared; a success marker in the output -> success with the
\* child's pid; an authentication-failure marker -> failure 'Authentication
\* failed'; the fifteenth poll -> success with the child's pid; otherwise the
\* loop goes on.  No connect makes more than POLL_ITERATIONS polls.
StartOutcome ==
    /\ [](\A w \in Workers :
            worker[w].pc = "connect_wait" => worker[w].i < POLL_ITERATIONS)
    /\ [][\A w \in Workers :
            (worker[w].pc = "connect_wait" /\ worker'[w] # worker[w])
            => IF ~(procs[vpn_process.pid].child /\ procs[vpn_process.pid].st = "running")
               THEN /\ worker'[w].pc = "idle"
                    /\ sent'.kind = "connect" /\ ~sent'.success
                    /\ sent'.error = "OpenConnect failed"
                    /\ sent'.lines = LastLines(output_lines, ERROR_TAIL)
                    /\ ~vpn_process'.set
                    /\ ~pid_file'.exists
               ELSE IF \E k \in DOMAIN output_lines : output_lines[k] = "Connected as 10.0.0.2"
               THEN /\ worker'[w].pc = "idle"
                    /\ sent'.kind = "connect" /\ sent'.success
                    /\ sent'.pid = vpn_process.pid
                    /\ UNCHANGED <<procs, vpn_process, pid_file>>
               ELSE IF \E k \in DOMAIN output_lines : output_lines[k] = "Authentication failed"
               THEN /\ worker'[w].pc = "idle"
                    /\ sent'.kind = "connect" /\ ~sent'.success
                    /\ sent'.error = "Authentication failed"
               ELSE IF worker[w].i = POLL_ITERATIONS - 1
               THEN /\ worker'[w].pc = "idle"
                    /\ sent'.kind = "connect" /\ sent'.success
                    /\ sent'.pid = vpn_process.pid
                    /\ UNCHANGED <<procs, vpn_process, pid_file>>
               ELSE /\ worker'[w].pc = "connect_wait"
                    /\ worker'[w].i = worker[w].i + 1
                    /\ sent' = NoResponse]_vars

\* C13 witness: connect succeeded on a success marker although the output
\* also holds an authentication-failure marker
StartOutcomeWitness ==
    /\ sent.kind = "connect"
    /\ sent.success
    /\ HasSuccessMarker(output_lines)
    /\ HasAuthFailure(output_lines)

\* C14: the signal a disconnect sends depends on the kind the request asks
\* for: a forceful disconnect sends the graceful termination signal SIGTERM,
\* a keep-alive disconnect does not.
SignalKindHonoured ==
    \A w \in Workers :
        worker[w].pc = "kill_wait"
        => IF worker[w].request.force
           THEN worker[w].sig = "SIGTERM"
           ELSE worker[w].sig # "SIGTERM"

\* worker w's connection ends in this step with a response written, or
\* goes on without one
RespondsAtClose(w) ==
    IF worker'[w].pc = "idle" THEN sent' # NoResponse ELSE sent' = NoResponse

NoRequestStopsDaemon ==
    /\ [][daemon = "listening" => daemon' = "listening"]_vars
    /\ [](daemon = "listening" => (listener.running /\ listener.socket = "open"))
    /\ []((sent # NoResponse /\ ~sent.success) => sent.error # "")
    /\ [](\A w \in Workers : lock = w => InFlight(w))
    /\ [](lock # 0 => lock \in Workers)

\* C16 witness: a spawn failure was reported to the client; the daemon
\* listens and the lock is free
NoRequestStopsDaemonWitness ==
    /\ sent.kind = "connect"
    /\ sent.error = "Permission denied"
    /\ ~sent.success
    /\ daemon = "listening"
    /\ lock = 0

\* C17: validate_request returns a verdict for every decoded request; it
\* never raises.
ValidatorTotal == ~vverdict.raised

\* the payload is no JSON object, or has no command of VALID_COMMANDS, or is
\* a connect request without server, protocol or cookie
LacksRequired(request) ==
    \/ ~request.isdict
    \/ request.command.t # "str"
    \/ request.command.v \notin VALID_COMMANDS
    \/ /\ request.command.v = "connect"
       /\ \E f \in {"server", "protocol", "cookie"} : request[f].t = "absent"

\* C18: validate_request accepts no payload that is not a JSON object, no
\* request whose command is absent or unknown, and no connect request that
\* lacks server, protocol or cookie.
RequiredFieldsEnforced ==
    (vstage # "received" /\ LacksRequired(vreq)) => ~vverdict.ok

\* the hostname grammar: one or more labels separated by dots, each label
\* letters, digits and hyphens with a letter or digit at both ends
Hostname(s) ==
    /\ Len(s) >= 1
    /\ AlNum(s[1])
    /\ AlNum(s[Len(s)])
    /\ \A i \in 1..Len(s) :
          \/ AlNum(s[i])
          \/ s[i] = HYPHEN
          \/ s[i] = DOT /\ AlNum(s[i - 1]) /\ AlNum(s[i + 1])

\* C19: a connect request whose server is a hostname of at most 253
\* characters, a one-character hostname included, and whose other fields are
\* valid is accepted.
ServerCompleteness ==
    (/\ vstage # "received"
     /\ vreq.isdict
     /\ vreq.command = JStr("connect")
     /\ vreq.server.t = "str"
     /\ Hostname(vreq.server.v)
     /\ Len(vreq.server.v) <= MAX_SERVER_LEN
     /\ vreq.protocol.t = "str" /\ vreq.protocol.v \in VALID_PROTOCOLS
     /\ vreq.cookie = JStr(<<LOWER_A>>)
     /\ vreq.username = Absent
     /\ vreq.usergroup = Absent)
    => vverdict.ok

\* C20: after SIGTERM or SIGINT the accept loop accepts at most the one
\* connection of the accept call that was in progress, then the listening
\* socket is closed and the socket file removed; the shutdown sends no
\* signal, leaves every running process running and leaves the pid file as
\* it is.
Shutdown ==
    /\ [][(~listener.running /\ ~listener.accept_pending)
          => \A w \in Workers :
                worker[w].pc = "idle"
                => (worker'[w].pc = "idle" /\ sent'.kind # "invalid")]_vars
    /\ [][~listener.running => ~listener'.accept_pending \/ listener' = listener]_vars
    /\ [][(daemon = "listening" /\ daemon' = "stopped")
          => /\ ~listener.running
             /\ listener'.socket = "closed"
             /\ ~listener'.file
             /\ pid_file' = pid_file
             /\ \A p \in Pids : procs[p].st = "running" => procs'[p].st = "running"
             /\ \A w \in Workers : worker'[w].pc # "kill_wait"]_vars
    /\ [](daemon = "stopped" => (listener.socket = "closed" /\ ~listener.file))
    /\ (~listener.running) ~> (daemon = "stopped")

\* C20 witness: the daemon has stopped while its tunnel ran: the tunnel
\* still runs and the pid file still names it
ShutdownWitness ==
    /\ daemon = "stopped"
    /\ listener.socket = "closed"
    /\ pid_file.exists
    /\ procs[pid_file.pid].st = "running"
    /\ procs[pid_file.pid].name = "openconnect"
    /\ \A p \in Pids \ {pid_file.pid} : procs[p].st = "absent"

\* C21: a worker waiting for its client's bytes never holds the session
\* lock, and while it waits every other worker can take its next step: a
\* free one accepts a connection, a waiting one reads any payload or times
\* out, a validated one enters the lock when it is free, and one in flight
\* goes on.
SilentClientHarmless ==
    /\ \A w \in Workers : worker[w].pc = "recv" => lock # w
    /\ \A w \in Workers : \A v \in Workers \ {w} :
          (worker[w].pc = "recv" /\ daemon = "listening")
          => /\ worker[v].pc = "idle" => ENABLED accept_connection(v)
             /\ worker[v].pc = "recv"
                  => \A data \in ShutdownInputs : ENABLED receive(v, data)
             /\ (worker[v].pc = "lock" /\ lock = 0) => ENABLED Dispatch(v)
             /\ InFlight(v) => ENABLED InFlightStep(v)

\* C21 witness: a status request was answered, after a connect had taken and
\* released the lock, while another worker waits for its client
SilentClientHarmlessWitness ==
    /\ sent.kind = "status"
    /\ sent.success
    /\ sent.connected
    /\ \E w \in Workers : worker[w].pc = "recv"

\* C22: _send ends either with a typed error or with a value, never with
\* both.  A missing socket file gives DaemonNotRunning with the hint to
\* start the daemon, a refused connection DaemonNotRunning with the hint to
\* restart it; a timeout, an empty reply and an unparseable reply give
\* DaemonError.  A value is returned only when the bytes received so far
\* are exactly one JSON value, and it is that value; when what the peer
\* writes is one object or one array, that is when all of its bytes have
\* been received.
TypedTransportErrors ==
    /\ client.pc = "raised"
         => (client.error \in {"DaemonNotRunning", "DaemonError"} /\ client.result = <<>>)
    /\ (client.pc # "init" /\ client.socket = "absent")
         => /\ client.pc = "raised"
            /\ client.error = "DaemonNotRunning"
            /\ client.message = "Daemon not running. Start with: sudo ms-sso-openconnect-daemon"
    /\ (client.pc # "init" /\ client.socket = "refused")
         => /\ client.pc = "raised"
            /\ client.error = "DaemonNotRunning"
            /\ client.message = "Daemon not responding. Restart with: sudo ms-sso-openconnect-daemon"
    /\ (client.pc # "init" /\ client.socket = "denied")
         => (client.pc = "raised" /\ client.error = "DaemonError")
    /\ client.event \in {"timeout", "eof", "reset"}
         => (client.pc = "raised" /\ client.error = "DaemonError")
    /\ client.pc = "returned"
         => /\ client.error = ""
            /\ JsonValue(SubSeq(client.reply, 1, client.received))
            /\ client.result.text = SubSeq(client.reply, 1, client.received)
            /\ (JsonValue(client.reply) /\ client.reply[1] \in {LBRACE, LBRACKET})
                 => client.received = Len(client.reply)

\* C22 witness: a reply that arrived in more than one piece was returned
\* whole
TypedTransportErrorsWitness ==
    /\ client.pc = "returned"
    /\ client.nchunks >= 2
    /\ client.result.t = "array"
    /\ client.received = Len(client.reply)

\* C23: every call of get_backend returns the same instance and at most one
\* VPNBackend is constructed, however the calls interleave.
GetBackendSingleton ==
    /\ Cardinality(backend.returned) <= 1
    /\ backend.made <= 1

\* a worker's dispatch of a disconnect request, as a step
DisconnectDispatched(w) ==
    /\ worker[w].pc = "lock"
    /\ worker[w].request.command.v = "disconnect"
    /\ worker'[w] # worker[w]

\* C24: the process a disconnect signals is the daemon's own child that has
\* not exited, or a process whose name is openconnect.
DisconnectSignalsTunnelOnly ==
    [][\A w \in Workers :
         (DisconnectDispatched(w) /\ worker'[w].pc = "kill_wait")
         => \/ /\ vpn_process.set
               /\ worker'[w].pid = vpn_process.pid
               /\ procs[vpn_process.pid].child
               /\ procs[vpn_process.pid].st = "running"
            \/ procs[worker'[w].pid].name = "openconnect"]_vars

\* C26: a disconnect takes its target from the first of these that gives
\* one: the managed child if it has not exited; the pid of the pid file if
\* that process runs; the first process named openconnect.  With none it
\* answers "Not connected" and signals nothing.
DisconnectResolutionOrder ==
    [][\A w \in Workers :
         DisconnectDispatched(w)
         => LET alive == /\ vpn_process.set
                         /\ procs[vpn_process.pid].child
                         /\ procs[vpn_process.pid].st = "running"
                reaped == vpn_process.set /\ procs[vpn_process.pid].child
                          /\ procs[vpn_process.pid].st = "zombie"
                by_file == /\ pid_file.exists
                           /\ procs[pid_file.pid].st = "running"
                named == {p \in Pids : /\ procs[p].st # "absent"
                                       /\ procs[p].name = "openconnect"
                                       /\ ~(reaped /\ p = vpn_process.pid)}
                signalled == worker'[w].pc = "kill_wait" /\ worker'[w].sig = "SIGTERM"
            IN  IF alive THEN signalled /\ worker'[w].pid = vpn_process.pid
                ELSE IF by_file THEN signalled /\ worker'[w].pid = pid_file.pid
                ELSE IF named # {}
                THEN /\ signalled
                     /\ worker'[w].pid \in named
                     /\ \A p \in named : worker'[w].pid <= p
                ELSE /\ worker'[w].pc = "idle"
                     /\ sent'.kind = "disconnect"
                     /\ ~sent'.success
                     /\ sent'.error = "Not connected"
                     /\ \A v \in Workers : worker'[v].pc = "kill_wait"
                                              => worker[v].pc = "kill_wait"]_vars

\* C26 witness: a disconnect has signalled the running process of the pid
\* file, which the daemon does not manage, while a process named
\* openconnect with a lower pid exists
DisconnectResolutionOrderWitness ==
    \E w \in Workers :
        /\ worker[w].pc = "kill_wait"
        /\ ~vpn_process.set
        /\ pid_file.exists
        /\ worker[w].pid = pid_file.pid
        /\ procs[pid_file.pid].st = "running"
        /\ find_openconnect(procs) # 0
        /\ find_openconnect(procs) < pid_file.pid

\* the errors _cmd_connect can answer with once it has spawned a child
AfterSpawnErrors ==
    {"OpenConnect failed", "Authentication failed", "Broken pipe", "AttributeError"}

\* C25: when a connect request that spawned a child is answered with
\* success:false, that child does not run and the daemon holds no live
\* handle, so that the next connect is not refused as "Already connected".
FailedConnectLeavesNothing ==
    (sent.kind = "connect" /\ ~sent.success /\ sent.error \in AfterSpawnErrors)
    => /\ LiveChildren = {}
       /\ ~PollIsNone(procs, vpn_process)

\* the number of line terminators in a text
Newlines(s) == Cardinality({i \in DOMAIN s : s[i] = LF})

\* the argv elements that carry a --cookie= option
CookieArgs(cmd) == {i \in DOMAIN cmd : cmd[i].opt = "--cookie="}

\* C27: for protocol gp the cookie is written to the child's stdin as
\* exactly one line and no argv element is a --cookie= option; for
\* anyconnect the cookie is the value of exactly one --cookie= element and
\* nothing is written to stdin.
CredentialDelivery ==
    vstage = "spawned"
    => IF ProtocolOf(vreq).v = "gp"
       THEN /\ vstdin = vreq.cookie.v \o <<LF>>
            /\ Newlines(vstdin) = 1
            /\ CookieArgs(vcmd) = {}
       ELSE /\ vstdin = <<>>
            /\ Cardinality(CookieArgs(vcmd)) = 1
            /\ \A i \in CookieArgs(vcmd) : vcmd[i].val = vreq.cookie.v

\* C28: the status response does not depend on the cookie of the connect
\* request: with any other accepted cookie in its place the response is the
\* same.
StatusHidesCookie ==
    vstage = "reported"
    => \A c \in Strings :
          LET other == [vreq EXCEPT !.cookie = JStr(c)]
          IN  validate_request(other).ok => status_of_child(other) = sent

\* the lines are consecutive lines of the child, the last one read included
MostRecentInOrder(lines) ==
    \A k \in DOMAIN lines : lines[k] = LinesRead - Len(lines) + k

\* C29: whenever a request is dispatched the output buffer holds at most
\* 100 lines, which are the most recent lines read in the order read, and
\* an output response carries at most the last 50 of them in that order.
BoundedOutputRing ==
    [][\A w \in Workers :
         (worker[w].pc = "lock" /\ worker'[w] # worker[w])
         => /\ Len(output_lines) <= 100
            /\ MostRecentInOrder(output_lines)
            /\ sent'.kind = "output"
                 => /\ Len(sent'.lines) <= 50
                    /\ MostRecentInOrder(sent'.lines)
                    /\ Len(sent'.lines) =
                          IF Len(output_lines) < 50 THEN Len(output_lines) ELSE 50]_vars

\* C30: a connect request the validator accepts is never answered with
\* "Invalid JSON" because of the listener's read of at most 65536 bytes.
NoTruncatedRequest ==
    vstage = "invalid_json" => ~validate_request(vreq).ok

====
